---- MODULE Spec2Model ----
(***************************************************************************)
(* Model of lib/Utils/use-multi-file-auth-state: a session stored as one   *)
(* file per record in a folder, every file access going through a per-path *)
(* lock.  Strings are sequences of one-character strings, so that the      *)
(* renaming done by fixFileName and sanitizeName is computed character by  *)
(* character.  File contents are sequences of text tokens, written in two  *)
(* chunks, so that an unfinished write is visible on disk.                 *)
(***************************************************************************)
EXTENDS Integers, Sequences, FiniteSets, TLC

VARIABLES folderKind, fs, name, base, phase, creds, locks, tasks, calls, faults

vars == <<folderKind, fs, name, base, phase, creds, locks, tasks, calls, faults>>

\* Bounds of the model: tasks dispatched in one run, injected I/O faults.
MaxTasks == 3
MaxFaults == 1

---------------------------------------------------------------------------
\* Strings

Letters ==
  {"a","b","c","d","e","f","g","h","i","j","k","l","m","n","o","p","q","r",
   "s","t","u","v","w","x","y","z","A","B","C","D","E","F","G","H","I","J",
   "K","L","M","N","O","P","Q","R","S","T","U","V","W","X","Y","Z"}

Digits == {"0","1","2","3","4","5","6","7","8","9"}

\* /\s/
WhiteSpace == {" ", "\t", "\n"}

\* /[A-Za-z0-9_]/
WordChars == Letters \cup Digits \cup {"_"}

RECURSIVE TrimLeft(_)
TrimLeft(s) ==
  IF s # <<>> /\ Head(s) \in WhiteSpace THEN TrimLeft(Tail(s)) ELSE s

RECURSIVE TrimRight(_)
TrimRight(s) ==
  IF s # <<>> /\ s[Len(s)] \in WhiteSpace
  THEN TrimRight(SubSeq(s, 1, Len(s) - 1))
  ELSE s

Trim(s) == TrimRight(TrimLeft(s))

\* base.replace(/\s+/g, '_'): every maximal run of white space becomes one "_"
RECURSIVE ReplaceSpaceRuns(_)
ReplaceSpaceRuns(s) ==
  IF s = <<>> THEN <<>>
  ELSE IF Head(s) \in WhiteSpace
       THEN <<"_">> \o ReplaceSpaceRuns(TrimLeft(s))
       ELSE <<Head(s)>> \o ReplaceSpaceRuns(Tail(s))

\* base.replace(/[^A-Za-z0-9_]/g, '')
StripNonWord(s) == SelectSeq(s, LAMBDA c : c \in WordChars)

AuthDefault == <<"a","u","t","h">>

\* if (base.length > 8) base = base.slice(0, 8)
Slice8(s) == IF Len(s) > 8 THEN SubSeq(s, 1, 8) ELSE s

\* sanitizeName(input?): the optional input is <<>> (absent) or <<string>>
sanitizeNameNoFallback(input) ==
  LET trimmed == IF input = <<>> THEN <<>> ELSE Trim(input[1])
      base0   == IF trimmed = <<>> THEN AuthDefault ELSE trimmed
  IN  Slice8(StripNonWord(ReplaceSpaceRuns(base0)))

sanitizeName(input) ==
  LET trimmed == IF input = <<>> THEN <<>> ELSE Trim(input[1])
      base0   == IF trimmed = <<>> THEN AuthDefault ELSE trimmed
      base1   == Slice8(StripNonWord(ReplaceSpaceRuns(base0)))
  IN  IF base1 = <<>> THEN AuthDefault ELSE base1

DotJson == <<".","j","s","o","n">>

baseName(nm) == sanitizeName(nm)

credFileName(nm) == baseName(nm) \o DotJson

\* file.replace(/\//g, '__').replace(/:/g, '-')
RECURSIVE fixFileName(_)
fixFileName(file) ==
  IF file = <<>> THEN <<>>
  ELSE LET c == Head(file)
       IN  (IF c = "/" THEN <<"_","_">>
            ELSE IF c = ":" THEN <<"-">>
            ELSE <<c>>) \o fixFileName(Tail(file))

\* join(folder, fixFileName(file)): the one folder of the session is left out
FilePath(file) == fixFileName(file)

\* `${category}-${id}.json`
KeyFileNoDash(category, id) == category \o id \o DotJson

KeyFile(category, id) == category \o <<"-">> \o id \o DotJson

---------------------------------------------------------------------------
\* Values.  A value is [t, v] with v a sequence of naturals:
\*   null, a number n (v = <<n>>), a Buffer (v = its bytes), an object holding
\*   one Buffer field (v = the bytes), and the plain tagged objects that
\*   BufferJSON.replacer puts in place of a Buffer.

Null == [t |-> "null", v |-> <<>>]
Num(n) == [t |-> "num", v |-> <<n>>]
Buf(b) == [t |-> "buf", v |-> b]
Obj(b) == [t |-> "obj", v |-> b]
Tagged(b) == [t |-> "tagged", v |-> b]
ObjTagged(b) == [t |-> "objTagged", v |-> b]
BufArray(b) == [t |-> "bufArray", v |-> b]
ObjBufArray(b) == [t |-> "objBufArray", v |-> b]

\* JavaScript truthiness of a value
Truthy(x) == ~(x.t = "null" \/ (x.t = "num" /\ x.v = <<0>>))

---------------------------------------------------------------------------
\* Base64 (Buffer.toString('base64') and Buffer.from(text, 'base64'))

B64Alphabet ==
  <<"A","B","C","D","E","F","G","H","I","J","K","L","M","N","O","P",
    "Q","R","S","T","U","V","W","X","Y","Z","a","b","c","d","e","f",
    "g","h","i","j","k","l","m","n","o","p","q","r","s","t","u","v",
    "w","x","y","z","0","1","2","3","4","5","6","7","8","9","+","/">>

B64Char(i) == B64Alphabet[i + 1]

B64Chars == {B64Alphabet[i] : i \in 1..64}

B64Index(c) == CHOOSE i \in 0..63 : B64Alphabet[i + 1] = c

RECURSIVE B64Encode(_)
B64Encode(b) ==
  IF b = <<>> THEN <<>>
  ELSE IF Len(b) = 1
  THEN <<B64Char(b[1] \div 4), B64Char((b[1] % 4) * 16), "=", "=">>
  ELSE IF Len(b) = 2
  THEN <<B64Char(b[1] \div 4), B64Char((b[1] % 4) * 16 + b[2] \div 16),
         B64Char((b[2] % 16) * 4), "=">>
  ELSE <<B64Char(b[1] \div 4), B64Char((b[1] % 4) * 16 + b[2] \div 16),
         B64Char((b[2] % 16) * 4 + b[3] \div 64), B64Char(b[3] % 64)>>
       \o B64Encode(SubSeq(b, 4, Len(b)))

\* groups of four characters, "=" padding in the last group only
RECURSIVE IsB64(_)
IsB64(s) ==
  IF s = <<>> THEN TRUE
  ELSE /\ Len(s) >= 4
       /\ s[1] \in B64Chars /\ s[2] \in B64Chars
       /\ \/ s[3] \in B64Chars /\ s[4] \in B64Chars /\ IsB64(SubSeq(s, 5, Len(s)))
          \/ s[3] \in B64Chars /\ s[4] = "=" /\ Len(s) = 4
          \/ s[3] = "=" /\ s[4] = "=" /\ Len(s) = 4

RECURSIVE B64Decode(_)
B64Decode(s) ==
  IF s = <<>> THEN <<>>
  ELSE LET i1 == B64Index(s[1])
           i2 == B64Index(s[2])
       IN  IF s[3] = "=" THEN <<i1 * 4 + i2 \div 16>>
           ELSE LET i3 == B64Index(s[3])
                IN  IF s[4] = "="
                    THEN <<i1 * 4 + i2 \div 16, (i2 % 16) * 16 + i3 \div 4>>
                    ELSE <<i1 * 4 + i2 \div 16, (i2 % 16) * 16 + i3 \div 4,
                           (i3 % 4) * 64 + B64Index(s[4])>>
                         \o B64Decode(SubSeq(s, 5, Len(s)))

---------------------------------------------------------------------------
\* JSON text, as a sequence of tokens

DigitSeq == <<"0","1","2","3","4","5","6","7","8","9">>

DigitValue(c) == CHOOSE d \in 0..9 : DigitSeq[d + 1] = c

RECURSIVE NumText(_)
NumText(n) ==
  IF n < 10 THEN <<DigitSeq[n + 1]>>
  ELSE NumText(n \div 10) \o <<DigitSeq[(n % 10) + 1]>>

IsNumText(s) ==
  /\ s # <<>>
  /\ \A i \in 1..Len(s) : s[i] \in Digits
  /\ (Len(s) > 1 => s[1] # "0")

RECURSIVE NumValue(_)
NumValue(s) ==
  IF Len(s) = 1 THEN DigitValue(s[1])
  ELSE NumValue(SubSeq(s, 1, Len(s) - 1)) * 10 + DigitValue(s[Len(s)])

\* the bytes of Buffer.toJSON().data, separated by commas
RECURSIVE BytesText(_)
BytesText(b) ==
  IF b = <<>> THEN <<>>
  ELSE IF Len(b) = 1 THEN NumText(b[1])
  ELSE NumText(b[1]) \o <<",">> \o BytesText(Tail(b))

CommaAt(s) ==
  IF \E i \in 1..Len(s) : s[i] = ","
  THEN CHOOSE i \in 1..Len(s) : s[i] = "," /\ \A j \in 1..(i - 1) : s[j] # ","
  ELSE 0

RECURSIVE IsBytesText(_)
IsBytesText(s) ==
  IF s = <<>> THEN TRUE
  ELSE IF CommaAt(s) = 0 THEN IsNumText(s)
  ELSE /\ IsNumText(SubSeq(s, 1, CommaAt(s) - 1))
       /\ CommaAt(s) < Len(s)
       /\ IsBytesText(SubSeq(s, CommaAt(s) + 1, Len(s)))

RECURSIVE BytesValue(_)
BytesValue(s) ==
  IF s = <<>> THEN <<>>
  ELSE IF CommaAt(s) = 0 THEN <<NumValue(s)>>
  ELSE <<NumValue(SubSeq(s, 1, CommaAt(s) - 1))>>
       \o BytesValue(SubSeq(s, CommaAt(s) + 1, Len(s)))

BufOpen == "{\"type\":\"Buffer\",\"data\":\""
BufClose == "\"}"
ArrOpen == "{\"type\":\"Buffer\",\"data\":["
ArrClose == "]}"
ObjOpen == "{\"noiseKey\":"
ObjClose == "}"

TaggedText(b) == <<BufOpen>> \o B64Encode(b) \o <<BufClose>>
ArrayText(b) == <<ArrOpen>> \o BytesText(b) \o <<ArrClose>>

\* BufferJSON.replacer: a Buffer becomes the tagged object {type, data: base64}
BufferJSONreplacer(x) ==
  IF x.t = "buf" THEN Tagged(x.v)
  ELSE IF x.t = "obj" THEN ObjTagged(x.v)
  ELSE x

\* BufferJSON.reviver: the tagged object becomes a Buffer again
BufferJSONreviver(x) ==
  IF x.t = "tagged" THEN Buf(x.v)
  ELSE IF x.t = "objTagged" THEN Obj(x.v)
  ELSE x

\* JSON.stringify without a replacer; a Buffer is written as its toJSON()
JSONstringify(x) ==
  IF x.t = "null" THEN <<"null">>
  ELSE IF x.t = "num" THEN NumText(x.v[1])
  ELSE IF x.t = "tagged" THEN TaggedText(x.v)
  ELSE IF x.t = "objTagged" THEN <<ObjOpen>> \o TaggedText(x.v) \o <<ObjClose>>
  ELSE IF x.t \in {"buf", "bufArray"} THEN ArrayText(x.v)
  ELSE <<ObjOpen>> \o ArrayText(x.v) \o <<ObjClose>>

Inner(s) == SubSeq(s, 2, Len(s) - 1)

IsTaggedText(s) ==
  Len(s) >= 2 /\ s[1] = BufOpen /\ s[Len(s)] = BufClose /\ IsB64(Inner(s))

IsArrayText(s) ==
  Len(s) >= 2 /\ s[1] = ArrOpen /\ s[Len(s)] = ArrClose /\ IsBytesText(Inner(s))

IsObjText(s) == Len(s) >= 4 /\ s[1] = ObjOpen /\ s[Len(s)] = ObjClose

\* JSON.parse without a reviver: [ok, val]; ok = FALSE is a SyntaxError
JSONparse(s) ==
  IF s = <<"null">> THEN [ok |-> TRUE, val |-> Null]
  ELSE IF IsNumText(s) THEN [ok |-> TRUE, val |-> Num(NumValue(s))]
  ELSE IF IsTaggedText(s) THEN [ok |-> TRUE, val |-> Tagged(B64Decode(Inner(s)))]
  ELSE IF IsArrayText(s) THEN [ok |-> TRUE, val |-> BufArray(BytesValue(Inner(s)))]
  ELSE IF IsObjText(s) /\ IsTaggedText(Inner(s))
  THEN [ok |-> TRUE, val |-> ObjTagged(B64Decode(Inner(Inner(s))))]
  ELSE IF IsObjText(s) /\ IsArrayText(Inner(s))
  THEN [ok |-> TRUE, val |-> ObjBufArray(BytesValue(Inner(Inner(s))))]
  ELSE [ok |-> FALSE, val |-> Null]

\* JSON.stringify(data, BufferJSON.replacer)
WriteTextPlain(data) == JSONstringify(data)
WriteText(data) == JSONstringify(BufferJSONreplacer(data))

\* JSON.parse(data, BufferJSON.reviver)
ReadValuePlain(text) == JSONparse(text)
ReadValue(text) ==
  LET p == JSONparse(text)
  IN  [ok |-> p.ok, val |-> BufferJSONreviver(p.val)]

---------------------------------------------------------------------------
\* Inputs

Session == <<"s","e","s","s","i","o","n">>

AppStateSyncKey ==
  <<"a","p","p","-","s","t","a","t","e","-","s","y","n","c","-","k","e","y">>

IdSlash == <<"a","/","b">>
IdUnder == <<"a","_","_","b">>
IdColon == <<"k",":","1">>

Keys == {<<Session, IdSlash>>, <<Session, IdUnder>>, <<AppStateSyncKey, IdColon>>}

\* a category and an id that spell the default base name between them
Au == <<"a","u">>
Th == <<"t","h">>

\* the optional session name: absent, or a name that sanitizeName rewrites
Names == {<<>>, <<<<" ","m","y"," ","s","e",":","s">>>>}

Values == {Null, Num(0), Num(12), Buf(<<1>>)}

PairValues == {Null, Num(12)}

Triple(k, v) == [category |-> k[1], id |-> k[2], value |-> v]

\* the updates given to set, as the sequence of triples the two loops visit:
\* every record with null and with a number, one record with a falsy number and
\* with a Buffer, two records on one path and on two paths, and the record
\* whose category and id spell "auth"
SetInputs ==
  {<<Triple(k, v)>> : k \in Keys, v \in PairValues}
  \cup {<<Triple(<<Au, Th>>, Num(12))>>}
  \cup {<<Triple(<<Session, IdSlash>>, v)>> : v \in Values}
  \cup {<<Triple(<<Session, IdSlash>>, vv[1]), Triple(k, vv[2])>> :
          k \in {<<Session, IdUnder>>, <<AppStateSyncKey, IdColon>>},
          vv \in PairValues \X PairValues}

GetInputs ==
  {[type |-> Session, ids |-> <<IdSlash>>],
   [type |-> Session, ids |-> <<IdUnder>>],
   [type |-> Session, ids |-> <<IdSlash, IdUnder>>],
   [type |-> Session, ids |-> <<IdSlash, IdColon>>],
   [type |-> AppStateSyncKey, ids |-> <<IdColon>>]}

FileNames ==
  UNION {{KeyFile(d[i].category, d[i].id) : i \in 1..Len(d)} : d \in SetInputs}
  \cup UNION {{KeyFile(g.type, g.ids[i]) : i \in 1..Len(g.ids)} : g \in GetInputs}
  \cup {credFileName(n) : n \in Names}

Paths == {FilePath(f) : f \in FileNames}

NoFile == [exists |-> FALSE, text |-> <<>>]
File(text) == [exists |-> TRUE, text |-> text]

EmptyDir == [p \in Paths |-> NoFile]

NamedSession == <<<<" ","m","y"," ","s","e",":","s">>>>

\* what open may find: [kind, files, name].  No folder, a file in its place,
\* an empty folder, a folder with a credential file, with a record that is
\* not JSON, with a record written earlier
InitialConfigs ==
  {[kind |-> "absent", files |-> EmptyDir, name |-> <<>>],
   [kind |-> "file", files |-> EmptyDir, name |-> <<>>],
   [kind |-> "dir", files |-> EmptyDir, name |-> NamedSession],
   [kind |-> "dir", name |-> NamedSession,
    files |-> [EmptyDir EXCEPT ![FilePath(credFileName(NamedSession))] =
                 File(WriteText(Obj(<<9>>)))]],
   [kind |-> "dir", name |-> <<>>,
    files |-> [EmptyDir EXCEPT ![FilePath(KeyFile(Session, IdSlash))] =
                 File(<<ObjOpen>>)]],
   [kind |-> "dir", name |-> <<>>,
    files |-> [EmptyDir EXCEPT ![FilePath(KeyFile(Session, IdSlash))] =
                 File(WriteText(Num(3)))]]}

\* initAuthCreds(): a fresh credential bundle
initAuthCreds == Obj(<<7>>)

\* proto.Message.AppStateSyncKeyData.fromObject(value)
fromObject(x) == [t |-> "AppStateSyncKeyData", v |-> x.v]

---------------------------------------------------------------------------
\* The lock of a path: the queue of the tasks that asked for it, its head the
\* holder.

getFileLock(lk, path) == lk[path]

MutexAcquire(q, t) == Append(q, t)

MutexRelease(q) == Tail(q)

\* release(): the next waiter, if any, is granted the lock
ReleaseLock(s, t) ==
  LET p == s.tasks[t].path
      q == getFileLock(s.locks, p)
  IN  IF q # <<>> /\ Head(q) = t
      THEN LET q2 == MutexRelease(q)
           IN  [tasks |-> IF q2 # <<>>
                          THEN [s.tasks EXCEPT ![Head(q2)].st = "granted"]
                          ELSE s.tasks,
                locks |-> [s.locks EXCEPT ![p] = q2]]
      ELSE s

---------------------------------------------------------------------------
\* Tasks: one call of writeData, readData or removeData.
\*   st: "queued" (waiting for the lock), "granted" (holds it, file not yet
\*       touched), "half" (a write between its two chunks), "ok", "failed"

InFs == {"granted", "half"}
Finished == {"ok", "failed"}

OnPath(tk, p) == {i \in 1..Len(tk) : tk[i].path = p}

\* history kept for the properties: was a write to the path unfinished when
\* the task was dispatched, and what a read dispatched now is expected to find
WriteUnfinished(tk, p) ==
  \E i \in OnPath(tk, p) : tk[i].op = "write" /\ tk[i].st \notin Finished

Mutators(tk, p) == {i \in OnPath(tk, p) : tk[i].op \in {"write", "remove"}}

LastMutator(tk, p) == CHOOSE i \in Mutators(tk, p) : \A j \in Mutators(tk, p) : j <= i

Expected(tk, file) ==
  LET p == FilePath(file)
  IN  IF Mutators(tk, p) # {}
         /\ tk[LastMutator(tk, p)].op = "write"
         /\ tk[LastMutator(tk, p)].st = "ok"
         /\ tk[LastMutator(tk, p)].file = file
      THEN <<tk[LastMutator(tk, p)].data>>
      ELSE <<>>

Task(op, c, file, data, id, tk) ==
  [op |-> op, call |-> c, file |-> file, path |-> FilePath(file), data |-> data,
   id |-> id, st |-> "queued", res |-> Null, fserr |-> "", err |-> "",
   conc |-> WriteUnfinished(tk, FilePath(file)),
   expect |-> IF op = "read" THEN Expected(tk, file) ELSE <<>>,
   seen |-> {}]

\* mutex.acquire().then(...): the task joins the queue of its path and starts
\* at once when the lock is free
AcquireThenOneLock(s, task) ==
  LET t == Len(s.tasks) + 1
      g == CHOOSE p \in DOMAIN s.locks : TRUE
      q == MutexAcquire(getFileLock(s.locks, g), t)
  IN  [tasks |-> Append(s.tasks,
                        [task EXCEPT !.st = IF Head(q) = t THEN "granted" ELSE "queued"]),
       locks |-> [s.locks EXCEPT ![g] = q]]

AcquireThenBarging(s, task) ==
  LET t   == Len(s.tasks) + 1
      old == getFileLock(s.locks, task.path)
      q   == IF old = <<>> THEN <<t>> ELSE <<Head(old), t>> \o Tail(old)
  IN  [tasks |-> Append(s.tasks,
                        [task EXCEPT !.st = IF Head(q) = t THEN "granted" ELSE "queued"]),
       locks |-> [s.locks EXCEPT ![task.path] = q]]

AcquireThen(s, task) ==
  LET t == Len(s.tasks) + 1
      q == MutexAcquire(getFileLock(s.locks, task.path), t)
  IN  [tasks |-> Append(s.tasks,
                        [task EXCEPT !.st = IF Head(q) = t THEN "granted" ELSE "queued"]),
       locks |-> [s.locks EXCEPT ![task.path] = q]]

\* the same without the lock: the file is touched at once
NoLockThen(s, task) ==
  [tasks |-> Append(s.tasks, [task EXCEPT !.st = "granted"]), locks |-> s.locks]

writeDataNoLock(s, c, data, file) ==
  NoLockThen(s, Task("write", c, file, data, <<>>, s.tasks))

writeData(s, c, data, file) ==
  AcquireThen(s, Task("write", c, file, data, <<>>, s.tasks))

readData(s, c, file, id) ==
  AcquireThen(s, Task("read", c, file, Null, id, s.tasks))

removeData(s, c, file) ==
  AcquireThen(s, Task("remove", c, file, Null, <<>>, s.tasks))

\* writeData, after writeFile settled: finally release(); a failure of
\* writeFile rejects the promise
writeDataSwallow(s, t, fserr) ==
  LET r == ReleaseLock(s, t)
  IN  [r EXCEPT !.tasks[t].st = "ok", !.tasks[t].fserr = fserr]

writeDataNoFinally(s, t, fserr) ==
  IF fserr = ""
  THEN LET r == ReleaseLock(s, t)
       IN  [r EXCEPT !.tasks[t].st = "ok", !.tasks[t].fserr = fserr]
  ELSE [s EXCEPT !.tasks[t].st = "failed",
                 !.tasks[t].fserr = fserr,
                 !.tasks[t].err = fserr]

writeDataSettle(s, t, fserr) ==
  LET r == ReleaseLock(s, t)
  IN  [r EXCEPT !.tasks[t].st = IF fserr = "" THEN "ok" ELSE "failed",
                !.tasks[t].fserr = fserr,
                !.tasks[t].err = fserr]

\* readData, after readFile and JSON.parse: finally release(); the outer
\* catch turns every failure into null
readDataNoCatch(s, t, fserr, val, seen) ==
  LET r == ReleaseLock(s, t)
  IN  [r EXCEPT !.tasks[t].st = IF fserr = "" THEN "ok" ELSE "failed",
                !.tasks[t].res = val,
                !.tasks[t].fserr = fserr,
                !.tasks[t].err = fserr,
                !.tasks[t].seen = seen]

readDataSettle(s, t, fserr, val, seen) ==
  LET r == ReleaseLock(s, t)
  IN  [r EXCEPT !.tasks[t].st = "ok",
                !.tasks[t].res = IF fserr = "" THEN val ELSE Null,
                !.tasks[t].fserr = fserr,
                !.tasks[t].seen = seen]

\* removeData, after unlink: catch {} swallows every failure, finally release()
removeDataNoCatch(s, t, fserr) ==
  LET r == ReleaseLock(s, t)
  IN  [r EXCEPT !.tasks[t].st = IF fserr = "" THEN "ok" ELSE "failed",
                !.tasks[t].fserr = fserr,
                !.tasks[t].err = fserr]

removeDataSettle(s, t, fserr) ==
  LET r == ReleaseLock(s, t)
  IN  [r EXCEPT !.tasks[t].st = "ok", !.tasks[t].fserr = fserr]

---------------------------------------------------------------------------
\* Calls: open, get, set, saveCreds.  st: "pending", "ok", "failed"

Call(kind, type, ids, data, ts, nullset) ==
  [kind |-> kind, type |-> type, ids |-> ids, data |-> data, tasks |-> ts,
   st |-> "pending", err |-> "", errTask |-> 0, result |-> {}, nullset |-> nullset]

AllOk(c, tk) == \A i \in 1..Len(c.tasks) : tk[c.tasks[i]].st = "ok"

\* a combinator that settles as soon as one promise does
PromiseRace(c, tk, t) ==
  IF c.st # "pending" THEN c
  ELSE IF tk[t].st = "failed"
  THEN [c EXCEPT !.st = "failed", !.err = tk[t].err, !.errTask = t]
  ELSE [c EXCEPT !.st = "ok"]

\* await Promise.all(tasks), when task t settles: rejected by the first
\* rejection, fulfilled when every task is
PromiseAll(c, tk, t) ==
  IF c.st # "pending" THEN c
  ELSE IF tk[t].st = "failed"
  THEN [c EXCEPT !.st = "failed", !.err = tk[t].err, !.errTask = t]
  ELSE IF AllOk(c, tk) THEN [c EXCEPT !.st = "ok"]
  ELSE c

\* keys.get, the callback of one id once its readData settled
getCollectByArrival(c, tk, t) ==
  LET value == IF c.type = AppStateSyncKey /\ Truthy(tk[t].res)
               THEN fromObject(tk[t].res)
               ELSE tk[t].res
      c1 == [c EXCEPT !.result = @ \cup {<<c.ids[Cardinality(@) + 1], value>>}]
  IN  IF tk[t].st = "failed" THEN PromiseAll(c, tk, t) ELSE PromiseAll(c1, tk, t)

getCollect(c, tk, t) ==
  LET value == IF c.type = AppStateSyncKey /\ Truthy(tk[t].res)
               THEN fromObject(tk[t].res)
               ELSE tk[t].res
      c1 == [c EXCEPT !.result =
               {p \in @ : p[1] # tk[t].id} \cup {<<tk[t].id, value>>}]
  IN  IF tk[t].st = "failed" THEN PromiseAll(c, tk, t) ELSE PromiseAll(c1, tk, t)

\* saveCreds returns the promise of its writeData
saveCredsSettle(c, tk, t) ==
  [c EXCEPT !.st = tk[t].st, !.err = tk[t].err,
            !.errTask = IF tk[t].st = "failed" THEN t ELSE 0]

SettleCall(c, tk, t) ==
  IF c.kind = "get" THEN getCollect(c, tk, t)
  ELSE IF c.kind = "set" THEN PromiseAll(c, tk, t)
  ELSE saveCredsSettle(c, tk, t)

\* (await readData(credFileName)) || initAuthCreds()
LoadedCreds(res) == IF Truthy(res) THEN res ELSE initAuthCreds

\* the state after task t settled: its call, and for open the credentials
Complete(s, t) ==
  LET ci == s.tasks[t].call
  IN  /\ tasks' = s.tasks
      /\ locks' = s.locks
      /\ calls' = [calls EXCEPT ![ci] = SettleCall(@, s.tasks, t)]
      /\ creds' = IF calls[ci].kind = "open" /\ s.tasks[t].st = "ok"
                  THEN LoadedCreds(s.tasks[t].res)
                  ELSE creds
      /\ phase' = IF calls[ci].kind = "open"
                  THEN (IF s.tasks[t].st = "ok" THEN "Ready" ELSE "Failed")
                  ELSE phase

Cur == [tasks |-> tasks, locks |-> locks]

---------------------------------------------------------------------------
\* if (!folderInfo.isDirectory()) throw new Error("Found non-directory at ...")
NotADirectoryIgnored(kind) == FALSE

NotADirectory(kind) == kind = "file"

\* useMultiFileAuthState(folder, name): the base name, stat, mkdir (which may
\* fail), then the credentials are read
Open ==
  /\ phase = "Uninitialized"
  /\ base' = baseName(name)
  /\ IF NotADirectory(folderKind)
     THEN /\ phase' = "Failed"
          /\ UNCHANGED <<folderKind, fs, name, creds, locks, tasks, calls, faults>>
     ELSE \E fail \in BOOLEAN :
            IF fail
            THEN /\ folderKind = "absent"
                 /\ faults < MaxFaults
                 /\ faults' = faults + 1
                 /\ phase' = "Failed"
                 /\ UNCHANGED <<folderKind, fs, name, creds, locks, tasks, calls>>
            ELSE LET s == readData(Cur, Len(calls) + 1, credFileName(name), <<>>)
                 IN  /\ folderKind' = IF folderKind = "absent" THEN "dir"
                                      ELSE folderKind
                     /\ phase' = "Opening"
                     /\ tasks' = s.tasks
                     /\ locks' = s.locks
                     /\ calls' = Append(calls, Call("open", <<>>, <<>>, <<>>,
                                                    <<Len(tasks) + 1>>, {}))
                     /\ UNCHANGED <<fs, name, creds, faults>>

SetCalls == {i \in 1..Len(calls) : calls[i].kind = "set"}

\* the ids for which the last set so far was set({type: {id: null}}) and has
\* returned with success
NullSet(type, ids) ==
  IF SetCalls = {} THEN {}
  ELSE LET last == CHOOSE i \in SetCalls : \A j \in SetCalls : j <= i
       IN  {ids[k] : k \in {k \in 1..Len(ids) :
                calls[last].st = "ok"
                /\ calls[last].data = <<Triple(<<type, ids[k]>>, Null)>>}}

RECURSIVE getMap(_, _, _, _)
getMap(s, c, type, ids) ==
  IF ids = <<>> THEN s
  ELSE getMap(readData(s, c, KeyFile(type, Head(ids)), Head(ids)), c, type, Tail(ids))

\* keys.get(type, ids): one readData per id
CallGet(inp) ==
  /\ phase = "Ready"
  /\ Len(tasks) + Len(inp.ids) <= MaxTasks
  /\ LET s == getMap(Cur, Len(calls) + 1, inp.type, inp.ids)
     IN  /\ tasks' = s.tasks
         /\ locks' = s.locks
         /\ calls' = Append(calls,
                       Call("get", inp.type, inp.ids, <<>>,
                            [i \in 1..Len(inp.ids) |-> Len(tasks) + i],
                            NullSet(inp.type, inp.ids)))
  /\ UNCHANGED <<folderKind, fs, name, base, phase, creds, faults>>

\* tasks.push(value ? writeData(value, file) : removeData(file))
setPush(s, c, tr) ==
  IF Truthy(tr.value)
  THEN writeData(s, c, tr.value, KeyFile(tr.category, tr.id))
  ELSE removeData(s, c, KeyFile(tr.category, tr.id))

RECURSIVE setLoop(_, _, _)
setLoop(s, c, triples) ==
  IF triples = <<>> THEN s
  ELSE setLoop(setPush(s, c, Head(triples)), c, Tail(triples))

\* keys.set(data)
CallSet(data) ==
  /\ phase = "Ready"
  /\ Len(tasks) + Len(data) <= MaxTasks
  /\ LET s == setLoop(Cur, Len(calls) + 1, data)
     IN  /\ tasks' = s.tasks
         /\ locks' = s.locks
         /\ calls' = Append(calls,
                       Call("set", <<>>, <<>>, data,
                            [i \in 1..Len(data) |-> Len(tasks) + i], {}))
  /\ UNCHANGED <<folderKind, fs, name, base, phase, creds, faults>>

\* saveCreds()
CallSaveCreds ==
  /\ phase = "Ready"
  /\ Len(tasks) + 1 <= MaxTasks
  /\ LET s == writeData(Cur, Len(calls) + 1, creds, credFileName(name))
     IN  /\ tasks' = s.tasks
         /\ locks' = s.locks
         /\ calls' = Append(calls, Call("saveCreds", <<>>, <<>>, <<>>,
                                        <<Len(tasks) + 1>>, {}))
  /\ UNCHANGED <<folderKind, fs, name, base, phase, creds, faults>>

---------------------------------------------------------------------------
\* The file system calls

Max(a, b) == IF a >= b THEN a ELSE b

FirstChunk(text) == SubSeq(text, 1, (Len(text) + 1) \div 2)
SecondChunk(text) == SubSeq(text, (Len(text) + 1) \div 2 + 1, Len(text))

\* write(fd, chunk, offset) on a file that holds old
WriteAt(old, off, chunk) ==
  [i \in 1..Max(Len(old), off + Len(chunk)) |->
     IF i > off /\ i <= off + Len(chunk) THEN chunk[i - off]
     ELSE IF i <= Len(old) THEN old[i]
     ELSE "\\0"]

\* writeFile, first part: open with O_TRUNC (or fail) and write the first chunk
FsWriteOpen(t) ==
  /\ tasks[t].op = "write" /\ tasks[t].st = "granted"
  /\ \E fail \in BOOLEAN :
       IF fail
       THEN /\ faults < MaxFaults
            /\ faults' = faults + 1
            /\ fs' = fs
            /\ Complete(writeDataSettle(Cur, t, "EACCES"), t)
       ELSE /\ fs' = [fs EXCEPT ![tasks[t].path] =
                        File(FirstChunk(WriteText(tasks[t].data)))]
            /\ tasks' = [tasks EXCEPT ![t].st = "half"]
            /\ UNCHANGED <<faults, locks, calls, creds, phase>>
  /\ UNCHANGED <<folderKind, name, base>>

\* writeFile, second part: the rest of the text, then close
FsWriteFinish(t) ==
  /\ tasks[t].op = "write" /\ tasks[t].st = "half"
  /\ LET text == WriteText(tasks[t].data)
     IN  fs' = [fs EXCEPT ![tasks[t].path] =
                  IF @.exists
                  THEN File(WriteAt(@.text, Len(FirstChunk(text)), SecondChunk(text)))
                  ELSE @]
  /\ Complete(writeDataSettle(Cur, t, ""), t)
  /\ UNCHANGED <<folderKind, name, base, faults>>

\* the values a read of path p may rightly return now: those of the writes to
\* p that completed, and what the file held before any write to p began
Applied(p) ==
  {tasks[i].data : i \in {j \in OnPath(tasks, p) :
                            tasks[j].op = "write" /\ tasks[j].st = "ok"}}
  \cup (IF (\A j \in OnPath(tasks, p) :
              tasks[j].op = "write" => tasks[j].st \notin {"half", "ok"})
           /\ fs[p].exists /\ ReadValue(fs[p].text).ok
        THEN {ReadValue(fs[p].text).val}
        ELSE {})

\* readFile and JSON.parse
FsRead(t) ==
  /\ tasks[t].op = "read" /\ tasks[t].st = "granted"
  /\ \E fail \in BOOLEAN :
       LET f == fs[tasks[t].path]
           parsed == ReadValue(f.text)
           fserr == IF fail THEN "EACCES"
                    ELSE IF ~f.exists THEN "ENOENT"
                    ELSE IF ~parsed.ok THEN "SyntaxError"
                    ELSE ""
       IN  /\ fail => faults < MaxFaults
           /\ faults' = IF fail THEN faults + 1 ELSE faults
           /\ Complete(readDataSettle(Cur, t, fserr, parsed.val,
                                      Applied(tasks[t].path)), t)
  /\ UNCHANGED <<folderKind, fs, name, base>>

\* unlink
FsUnlink(t) ==
  /\ tasks[t].op = "remove" /\ tasks[t].st = "granted"
  /\ \E fail \in BOOLEAN :
       LET f == fs[tasks[t].path]
           fserr == IF ~f.exists THEN "ENOENT"
                    ELSE IF fail THEN "EPERM"
                    ELSE ""
       IN  /\ fail => (f.exists /\ faults < MaxFaults)
           /\ faults' = IF fail THEN faults + 1 ELSE faults
           /\ fs' = IF fserr = "" THEN [fs EXCEPT ![tasks[t].path] = NoFile] ELSE fs
           /\ Complete(removeDataSettle(Cur, t, fserr), t)
  /\ UNCHANGED <<folderKind, name, base>>

---------------------------------------------------------------------------

Init ==
  /\ \E cfg \in InitialConfigs :
       folderKind = cfg.kind /\ fs = cfg.files /\ name = cfg.name
  /\ base = <<>>
  /\ phase = "Uninitialized"
  /\ creds = Null
  /\ locks = [p \in Paths |-> <<>>]
  /\ tasks = <<>>
  /\ calls = <<>>
  /\ faults = 0

Next ==
  \/ Open
  \/ \E inp \in GetInputs : CallGet(inp)
  \/ \E data \in SetInputs : CallSet(data)
  \/ CallSaveCreds
  \/ \E t \in 1..Len(tasks) : FsWriteOpen(t)
  \/ \E t \in 1..Len(tasks) : FsWriteFinish(t)
  \/ \E t \in 1..Len(tasks) : FsRead(t)
  \/ \E t \in 1..Len(tasks) : FsUnlink(t)

Spec == Init /\ [][Next]_vars

---------------------------------------------------------------------------
\* Properties

TaskIds == 1..Len(tasks)
CallIds == 1..Len(calls)

Reads == {i \in TaskIds : tasks[i].op = "read"}
Writes == {i \in TaskIds : tasks[i].op = "write"}
Removes == {i \in TaskIds : tasks[i].op = "remove"}

CallsOf(kind) == {i \in CallIds : calls[i].kind = kind}

TasksOf(c) == {calls[c].tasks[i] : i \in 1..Len(calls[c].tasks)}

\* C1: for every path, at most one write, read or remove is between the
\* acquisition and the release of the path's lock.
C1_MutualExclusion ==
  \A p \in Paths :
    Cardinality({i \in OnPath(tasks, p) : tasks[i].st \in InFs}) <= 1

\* two operations of different calls want one path: a write is between its
\* two chunks, the other operation waits
C1_Witness ==
  \E i, j \in TaskIds :
    /\ tasks[i].path = tasks[j].path
    /\ tasks[i].call # tasks[j].call
    /\ tasks[i].st = "half"
    /\ tasks[j].st = "queued"

\* C2: when no operation is at work on a path that writes have completed on,
\* the file holds exactly the text of one completed write, never a mixture.
C2_NoInterleavedWrites ==
  \A p \in Paths :
    (/\ \A i \in OnPath(tasks, p) : tasks[i].st \notin InFs
     /\ \E w \in Writes : tasks[w].path = p /\ tasks[w].st = "ok"
     /\ fs[p].exists)
    => \E w \in Writes :
         /\ tasks[w].path = p
         /\ tasks[w].st = "ok"
         /\ fs[p].text = WriteText(tasks[w].data)

\* two writes of different values to one path, the second asked for while the
\* first was unfinished, have both completed
C2_Witness ==
  \E i, j \in Writes :
    /\ i < j
    /\ tasks[i].path = tasks[j].path
    /\ tasks[i].data # tasks[j].data
    /\ tasks[j].conc
    /\ tasks[i].st = "ok" /\ tasks[j].st = "ok"
    /\ fs[tasks[j].path] = File(WriteText(tasks[j].data))

\* C3: a read returns null or the whole value of one write that was applied
\* to its path (or what the file held before any write), never part of a
\* write in progress.
C3_NoPartialRead ==
  \A r \in Reads :
    tasks[r].st = "ok" => (tasks[r].res = Null \/ tasks[r].res \in tasks[r].seen)

\* a read asked for while a write to its path was unfinished returned a value
C3_Witness ==
  \E r \in Reads :
    /\ tasks[r].st = "ok"
    /\ tasks[r].conc
    /\ tasks[r].res # Null
    /\ \E w \in Writes : tasks[w].path = tasks[r].path /\ tasks[w].data = tasks[r].res

\* C4: readData never rejects; whatever went wrong (no file, no JSON, an I/O
\* error) it returns null, get does not fail and reports null for the id.
C4_ReadNeverFails ==
  /\ \A r \in Reads :
       /\ tasks[r].st # "failed"
       /\ tasks[r].err = ""
       /\ (tasks[r].st = "ok" /\ tasks[r].fserr # "" => tasks[r].res = Null)
  /\ \A g \in CallsOf("get") :
       /\ calls[g].st # "failed"
       /\ calls[g].st = "ok" =>
            \A r \in TasksOf(g) :
              tasks[r].fserr # "" => <<tasks[r].id, Null>> \in calls[g].result

\* a get has returned although one of its reads met an I/O error and another
\* call's read met a file that is not JSON or is missing
C4_Witness ==
  \E g \in CallsOf("get") :
    /\ calls[g].st = "ok"
    /\ \E r \in TasksOf(g) : tasks[r].fserr = "EACCES"
    /\ \E r \in Reads : tasks[r].fserr \in {"SyntaxError", "ENOENT"}

\* C5: a failure of writeFile rejects writeData, and the set or saveCreds that
\* dispatched the write fails with the error of a failed write of its own
\* (saveCreds: of that write).
C5_WriteFailurePropagates ==
  \A w \in Writes :
    tasks[w].fserr # "" =>
      LET c == calls[tasks[w].call]
      IN  /\ tasks[w].st = "failed"
          /\ tasks[w].err = tasks[w].fserr
          /\ c.st = "failed"
          /\ c.errTask \in TasksOf(tasks[w].call)
          /\ tasks[c.errTask].st = "failed"
          /\ c.err = tasks[c.errTask].err
          /\ (c.kind = "saveCreds" => c.errTask = w)

\* a set of two records has failed with the error of its failed write
C5_Witness ==
  \E c \in CallsOf("set") :
    /\ Len(calls[c].tasks) = 2
    /\ calls[c].st = "failed"
    /\ calls[c].err = "EACCES"
    /\ tasks[calls[c].errTask].op = "write"

\* C6: a remove that fails for another reason than a missing file makes the
\* set that dispatched it fail.
C6_RemoveFailurePropagates ==
  \A r \in Removes :
    (tasks[r].fserr = "EPERM" /\ calls[tasks[r].call].kind = "set")
    => calls[tasks[r].call].st = "failed"

\* C7, as claimed: once set has returned, with success or with a failure,
\* none of its operations is pending or in progress.
C7_SetWaitsForAll ==
  \A c \in CallsOf("set") :
    calls[c].st # "pending" => \A t \in TasksOf(c) : tasks[t].st \in Finished

\* C7, amended: once set has returned with success every operation of it has
\* completed; once it has returned with a failure, the operation whose
\* failure it reports has.
C7_SetWaitsOnSuccess ==
  \A c \in CallsOf("set") :
    /\ calls[c].st = "ok" => \A t \in TasksOf(c) : tasks[t].st = "ok"
    /\ calls[c].st = "failed" =>
         calls[c].errTask \in TasksOf(c) /\ tasks[calls[c].errTask].st = "failed"

\* a set of two records has returned with success
C7_Witness ==
  \E c \in CallsOf("set") :
    /\ Len(calls[c].tasks) = 2
    /\ calls[c].st = "ok"
    /\ \A t \in TasksOf(c) : tasks[t].st = "ok"

\* C8: set dispatches a write for every non-null value and a remove only for
\* a null one.
C8_SetDispatch ==
  \A c \in CallsOf("set") :
    \A i \in 1..Len(calls[c].data) :
      LET op == tasks[calls[c].tasks[i]].op
      IN  /\ calls[c].data[i].value # Null => op = "write"
          /\ op = "remove" => calls[c].data[i].value = Null

\* C9: a get that follows a completed set({cat: {id: null}}), no other set in
\* between, returns null for id.
C9_NullAfterSetNull ==
  \A g \in CallsOf("get") :
    calls[g].st = "ok" =>
      \A id \in calls[g].nullset : <<id, Null>> \in calls[g].result

C11_RemoveIdempotent ==
  [][\A t \in TaskIds :
       (/\ tasks[t].op = "remove"
        /\ tasks[t].st = "granted"
        /\ tasks'[t].st \in Finished
        /\ ~fs[tasks[t].path].exists)
       => /\ fs' = fs
          /\ tasks'[t].st = "ok"
          /\ tasks'[t].err = ""
          /\ (calls'[tasks[t].call].st = "failed"
                => calls[tasks[t].call].st = "failed")]_vars

\* a remove deleted a file, and a second remove of the same path then found
\* nothing to delete and completed, as did its set
C11_Witness ==
  \E i, j \in Removes :
    /\ i < j
    /\ tasks[i].path = tasks[j].path
    /\ tasks[i].st = "ok" /\ tasks[i].fserr = ""
    /\ tasks[j].st = "ok" /\ tasks[j].fserr = "ENOENT"
    /\ calls[tasks[j].call].st = "ok"
    /\ ~fs[tasks[j].path].exists

\* C12: when the path given to open exists and is not a directory, open
\* fails: the only step taken ends in the phase Failed, the path stays what
\* it was, no file is created, changed or deleted, no operation is
\* dispatched, and the handle never becomes Ready.
C12_OpenOnNonDirectory ==
  [][folderKind = "file"
     => /\ phase' = "Failed"
        /\ folderKind' = "file"
        /\ fs' = fs
        /\ tasks' = tasks /\ calls' = calls /\ locks' = locks
        /\ creds' = creds]_vars

\* open was called on a path that is a file and has failed
C12_Witness ==
  /\ folderKind = "file"
  /\ phase = "Failed"
  /\ base # <<>>
  /\ tasks = <<>>

\* C13: the credential file is changed by saveCreds alone.  No operation of a
\* get or of a set is ever aimed at its path, and every step that changes the
\* file (creates it, rewrites it, deletes it) is a step of the write of a
\* saveCreds call; so open leaves it absent when it found none.
C13_CredFileOnlySaveCreds ==
  [][LET p == FilePath(credFileName(name))
     IN  /\ \A t \in 1..Len(tasks') :
              calls'[tasks'[t].call].kind \in {"get", "set"}
              => tasks'[t].path # p
         /\ fs'[p] # fs[p]
            => \E t \in Writes :
                 /\ tasks[t].path = p
                 /\ calls[tasks[t].call].kind = "saveCreds"
                 /\ tasks[t].st \in InFs
                 /\ tasks'[t].st # tasks[t].st]_vars

\* open found no credential file; a set of the record ("au", "th") and a get
\* have completed since, no saveCreds was called, and auth.json is absent
C13_Witness ==
  /\ name = <<>>
  /\ phase = "Ready"
  /\ ~fs[FilePath(credFileName(name))].exists
  /\ CallsOf("saveCreds") = {}
  /\ \E c \in CallsOf("set") :
       calls[c].st = "ok" /\ calls[c].data = <<Triple(<<Au, Th>>, Num(12))>>
  /\ \E c \in CallsOf("get") : calls[c].st = "ok"

---------------------------------------------------------------------------
\* sanitizeName on its own: every name over a letter, a blank and a character
\* outside [A-Za-z0-9_], up to MaxNameLen characters, and the absent name

MaxNameLen == 9

NameChars == {"a", " ", ":"}

SanitizeInputs ==
  {<<>>} \cup {<<s>> : s \in UNION {[1..n -> NameChars] : n \in 0..MaxNameLen}}

InitSanitize ==
  /\ name \in SanitizeInputs
  /\ base = <<>>
  /\ phase = "Uninitialized"
  /\ folderKind = "dir"
  /\ fs = EmptyDir
  /\ creds = Null
  /\ locks = [p \in Paths |-> <<>>]
  /\ tasks = <<>>
  /\ calls = <<>>
  /\ faults = 0

\* const baseName = sanitizeName(name)
ApplySanitizeName ==
  /\ phase = "Uninitialized"
  /\ base' = baseName(name)
  /\ phase' = "Named"
  /\ UNCHANGED <<folderKind, fs, name, creds, locks, tasks, calls, faults>>

NextSanitize == ApplySanitizeName

SpecSanitize == InitSanitize /\ [][NextSanitize]_vars

\* C14: for every name, absent, empty, blank or made of disallowed characters
\* included, the base name is not empty, is at most 8 characters long and
\* holds only characters of [A-Za-z0-9_].
C14_SanitizeContract ==
  phase = "Named"
  => /\ base # <<>>
     /\ Len(base) <= 8
     /\ \A i \in 1..Len(base) : base[i] \in WordChars

\* the base name of a name made of disallowed characters only is the default
C14_Witness ==
  /\ phase = "Named"
  /\ name = <<<<":", ":">>>>
  /\ base = AuthDefault

---------------------------------------------------------------------------
\* The handle after open has returned, used on one record path and on the
\* credential file: every task of the bound is an operation of get, set or
\* saveCreds, so that two operations can wait behind a third.

ReadyConfigs == {cfg \in InitialConfigs : cfg.kind = "dir" /\ cfg.name = <<>>}

RecordPath == FilePath(KeyFile(Session, IdSlash))

ReadySetInputs ==
  {d \in SetInputs :
     \A i \in 1..Len(d) : FilePath(KeyFile(d[i].category, d[i].id)) = RecordPath}

ReadyGetInputs ==
  {g \in GetInputs :
     \A i \in 1..Len(g.ids) : FilePath(KeyFile(g.type, g.ids[i])) = RecordPath}

\* the state in which useMultiFileAuthState returns its handle
InitReady ==
  /\ \E cfg \in ReadyConfigs :
       /\ fs = cfg.files
       /\ name = cfg.name
       /\ LET f == cfg.files[FilePath(credFileName(cfg.name))]
          IN  creds = LoadedCreds(IF f.exists /\ ReadValue(f.text).ok
                                  THEN ReadValue(f.text).val
                                  ELSE Null)
  /\ folderKind = "dir"
  /\ base = baseName(name)
  /\ phase = "Ready"
  /\ locks = [p \in Paths |-> <<>>]
  /\ tasks = <<>>
  /\ calls = <<>>
  /\ faults = 0

NextReady ==
  \/ \E inp \in ReadyGetInputs : CallGet(inp)
  \/ \E data \in ReadySetInputs : CallSet(data)
  \/ CallSaveCreds
  \/ \E t \in 1..Len(tasks) : FsWriteOpen(t)
  \/ \E t \in 1..Len(tasks) : FsWriteFinish(t)
  \/ \E t \in 1..Len(tasks) : FsRead(t)
  \/ \E t \in 1..Len(tasks) : FsUnlink(t)

SpecReady == InitReady /\ [][NextReady]_vars

\* C15: the lock of a path is first in, first out.  Of two operations on one
\* path, the one that asked for the lock later touches the file only after
\* the earlier one has finished.
C15_FifoPerPath ==
  \A i, j \in TaskIds :
    (/\ i < j
     /\ tasks[i].path = tasks[j].path
     /\ tasks[j].st \in InFs \cup Finished)
    => tasks[i].st \in Finished

\* a write, a read and a third operation of one path were waiting together
\* (the third was asked for while the write was unfinished); the write and the
\* read have finished and the third is at the file
C15_Witness ==
  \E i, j, k \in TaskIds :
    /\ i < j /\ j < k
    /\ tasks[i].path = tasks[j].path /\ tasks[j].path = tasks[k].path
    /\ tasks[i].op = "write" /\ tasks[j].op = "read"
    /\ tasks[k].conc
    /\ tasks[i].st \in Finished /\ tasks[j].st \in Finished
    /\ tasks[k].st \in InFs

---------------------------------------------------------------------------
\* Every writeFile, readFile and unlink that was started comes to an end.

FsStep ==
  \E t \in 1..Len(tasks) :
    FsWriteOpen(t) \/ FsWriteFinish(t) \/ FsRead(t) \/ FsUnlink(t)

FairSpecReady == SpecReady /\ WF_vars(FsStep)

\* C16: the lock is released on every way out of an operation, failures
\* included: a finished operation is in no queue, and, the file system calls
\* coming to an end, every operation asked for gets its lock and finishes,
\* also behind an operation that failed.
C16_ReleaseAndProgress ==
  /\ [](\A t \in TaskIds :
          tasks[t].st \in Finished
          => \A p \in Paths : \A k \in 1..Len(locks[p]) : locks[p][k] # t)
  /\ \A t \in 1..MaxTasks :
       (Len(tasks) >= t) ~> (Len(tasks) >= t /\ tasks[t].st \in Finished)

\* a write failed, and an operation of the same path that was asked for
\* while the write was unfinished has finished after it
C16_Witness ==
  \E i, j \in TaskIds :
    /\ i < j
    /\ tasks[i].path = tasks[j].path
    /\ tasks[i].op = "write" /\ tasks[i].st = "failed"
    /\ tasks[j].conc
    /\ tasks[j].st \in Finished

\* C17: the mapping built by get has, for each requested id whose read has
\* completed, one entry under that id with the value of that read (null when
\* nothing was read), whichever reads completed first; a get that has
\* returned has an entry for every requested id.
C17_GetMapsEveryId ==
  \A c \in CallsOf("get") :
    LET ids  == calls[c].ids
        done == {i \in 1..Len(ids) : tasks[calls[c].tasks[i]].st = "ok"}
    IN  /\ calls[c].result =
             {<<ids[i],
                IF calls[c].type = AppStateSyncKey
                   /\ Truthy(tasks[calls[c].tasks[i]].res)
                THEN fromObject(tasks[calls[c].tasks[i]].res)
                ELSE tasks[calls[c].tasks[i]].res>> : i \in done}
        /\ calls[c].st = "ok" => done = 1..Len(ids)

\* a get of two ids stored at two paths: the read of the second id has
\* completed before the read of the first, and its value stands under the
\* second id
C17_Witness ==
  \E c \in CallsOf("get") :
    /\ Len(calls[c].ids) = 2
    /\ tasks[calls[c].tasks[1]].path # tasks[calls[c].tasks[2]].path
    /\ tasks[calls[c].tasks[1]].st = "granted"
    /\ tasks[calls[c].tasks[2]].st = "ok"
    /\ \E p \in calls[c].result : p[1] = calls[c].ids[2]
    /\ fs[tasks[calls[c].tasks[1]].path].exists

\* C18: the locks of different paths are independent.  An operation waits
\* only while an operation asked for earlier on its own path is unfinished,
\* and the lock it waits for is the lock of its own path; what is pending on
\* other paths never keeps it waiting.
C18_PathsIndependent ==
  \A t \in TaskIds :
    /\ tasks[t].st = "queued"
       => \E u \in TaskIds :
            /\ u < t
            /\ tasks[u].path = tasks[t].path
            /\ tasks[u].st \notin Finished
    /\ \A p \in Paths :
         (\E k \in 1..Len(locks[p]) : locks[p][k] = t) => p = tasks[t].path

\* an operation has finished on one path while an operation asked for
\* earlier on another path is still between the two chunks of its write and a
\* third operation waits behind that write
C18_Witness ==
  \E u, w, t \in TaskIds :
    /\ u < w /\ u < t
    /\ tasks[u].path # tasks[t].path
    /\ tasks[u].path = tasks[w].path
    /\ tasks[u].st = "half"
    /\ tasks[w].st = "queued"
    /\ tasks[t].st \in Finished

\* C19: records are isolated.  Two operations of get or set that address
\* different (category, id) pairs address different files, so that a set of
\* one record never changes what get returns for another.
C19_RecordIsolation ==
  LET keyed == {t \in TaskIds : calls[tasks[t].call].kind \in {"get", "set"}}
      key(t) ==
        LET c == calls[tasks[t].call]
            i == CHOOSE k \in 1..Len(c.tasks) : c.tasks[k] = t
        IN  IF c.kind = "get" THEN <<c.type, c.ids[i]>>
            ELSE <<c.data[i].category, c.data[i].id>>
  IN  \A t, u \in keyed : key(t) # key(u) => tasks[t].path # tasks[u].path

\* C20: the last dispatched operation wins.  Once all the writes and removes
\* dispatched for a path have completed with success, the file is in the
\* state the last dispatched of them produces: the text of its value for a
\* write, no file for a remove.
C20_LastDispatchedWins ==
  \A p \in Paths :
    (/\ Mutators(tasks, p) # {}
     /\ \A i \in Mutators(tasks, p) : tasks[i].st = "ok")
    => LET last == tasks[LastMutator(tasks, p)]
       IN  IF last.op = "write"
           THEN fs[p] = File(WriteText(last.data))
           ELSE ~fs[p].exists

====
